---- MODULE Spec2Model ----
(***************************************************************************)
(* Model of the gurddy-mcp protocol engine as seen from the two example    *)
(* clients (examples/http_mcp_client.py, examples/streamable_http_client.py)*)
(* talking to the MCP server.  The clients and the generated registry are  *)
(* translated from the source; the server's session state machine and its  *)
(* tools/call dispatch (mcp_server/mcp_http_server.py, not part of the     *)
(* source tree at hand) follow sections 4.2 and 4.4 of the specification.  *)
(***************************************************************************)
EXTENDS Integers, Sequences, FiniteSets, TLC

VARIABLES
  program,       \* which example client runs: "http" (MCPHTTPClient) or "stream"
  request_id,    \* self.request_id of the client object
  initialized,   \* MCPHTTPClient.initialized
  server_info,   \* MCPHTTPClient.server_info
  capabilities,  \* MCPHTTPClient.capabilities
  hpc,           \* the MCPHTTPClient method the caller is blocked in
  hres,          \* local `result` of MCPHTTPClient.initialize
  hret,          \* value last returned to the caller of MCPHTTPClient
  hx,            \* the HTTP exchange MCPHTTPClient._make_request is blocked on
  listed,        \* the tool lists list_tools has returned to its caller, in order
  spc,           \* what the StreamableMCPClient caller is blocked in
  rx,            \* the HTTP exchange StreamableMCPClient.call_regular is blocked on
  streams,       \* the generators call_streaming has returned
  session,       \* server side: the Session of the client's connection
  invocations,   \* server side: ids of the requests a tool handler was invoked for
  sent,          \* history: the ids of the requests put on the wire, in order
  delivered,     \* the last response handed to a caller, with the request it answers
  gurddy,        \* scripts: the functions of the module mcp_server.handlers.gurddy
  stdio_server,  \* scripts: the MCPStdioServer() the verification constructs
  http_registry, \* scripts: get_registry() of the HTTP front-end
  script,        \* scripts: which entry point runs, and whether it has finished
  results,       \* scripts: `results` of verify_consistency.main
  report,        \* scripts: `inconsistencies` of the last consistency validation
  exit_status,   \* scripts: <<status>> once the entry point has exited, else <<>>
  generated,     \* scripts: the TOOLS list generate_registry.main has written
  hook           \* scripts: the run_command calls of build_hook.main, and its message

hvars == <<initialized, server_info, capabilities, hpc, hres, hret, hx, listed>>

svars == <<spc, rx, streams>>

tvars == <<gurddy, stdio_server, http_registry, script, results, report, exit_status,
           generated, hook>>

vars == <<program, request_id, hvars, svars, session, invocations, sent, delivered, tvars>>

----------------------------------------------------------------------------
\* Bounds of the model.

\* request ids handed out per StreamableMCPClient object
MaxRequests == 3

\* request ids handed out per MCPHTTPClient object
MaxHttpRequests == 4

\* generators one StreamableMCPClient caller holds
MaxStreams == 1

\* intermediate frames of one streaming exchange, before its terminal frame
MaxProgress == 1

----------------------------------------------------------------------------
\* Values.

Programs == {"http", "stream"}

\* "arguments" objects: sets of <<key, JSON type of the value>>
NoArgs == {}

ArgChoices ==
  { {},
    {<<"n", "integer">>},
    {<<"n", "string">>},
    {<<"edges", "array">>},
    {<<"edges", "array">>, <<"num_vertices", "integer">>},
    {<<"n", "integer">>, <<"verbose", "boolean">>} }

NameChoices ==
  {"info", "solve_n_queens", "solve_graph_coloring", "nonexistent_tool", "Info", " info"}

Keys(obj) == {p[1] : p \in obj}

NoPayload == [serverInfo |-> "", capabilities |-> "", protocolVersion |-> "",
              tools |-> <<>>, content |-> <<>>]

NoReq == [id |-> 0, hasId |-> FALSE, method |-> "", name |-> "", args |-> {}, signal |-> "none"]

NoResp == [id |-> 0, kind |-> "none", err |-> "", code |-> 0, payload |-> NoPayload]

\* a Session as the server creates it on the first transport connection
NewSession == [state |-> "Uninitialized", protocolVersion |-> "", capabilities |-> ""]

\* one HTTP exchange: the request posted, the buffered response or the frames still
\* to be read, and (for the record) the session before and after the server handled it
NoExchange == [st |-> "none", req |-> NoReq, resp |-> NoResp, frames |-> <<>>,
               before |-> NewSession, after |-> NewSession]

\* build_hook.main before its first run_command: no command run, no message printed
NoHook == [commands |-> <<>>, message |-> ""]

\* what list_tools / call_tool return on a client that is not initialized
ClientNotInitialized ==
  [id |-> 0, kind |-> "error", err |-> "Client not initialized. Call initialize() first.",
   code |-> 0, payload |-> NoPayload]

----------------------------------------------------------------------------
\* The generated registry (scripts/generate_registry.py, the tool_registry.py template).

TOOLS ==
  << [name |-> "info", function |-> "info", module |-> "handlers.gurddy",
      type |-> "object", properties |-> {}, required |-> {}],
     [name |-> "solve_n_queens", function |-> "solve_n_queens",
      module |-> "handlers.gurddy",
      type |-> "object", properties |-> {<<"n", "integer">>}, required |-> {"n"}],
     [name |-> "solve_graph_coloring", function |-> "solve_graph_coloring",
      module |-> "handlers.gurddy", type |-> "object",
      properties |-> {<<"edges", "array">>, <<"num_vertices", "integer">>,
                      <<"max_colors", "integer">>},
      required |-> {"edges", "num_vertices"}] >>

\* mutant of get_all_tool_names: the names come back in reverse order
get_all_tool_names_reversed == [i \in 1..Len(TOOLS) |-> TOOLS[Len(TOOLS) + 1 - i].name]

\* [tool["name"] for tool in TOOLS]
get_all_tool_names == [i \in 1..Len(TOOLS) |-> TOOLS[i].name]

\* mutant of get_tool_by_name: an unknown name falls back to the first tool
get_tool_by_name_fallback(name) ==
  LET hits == {i \in 1..Len(TOOLS) : TOOLS[i].name = name}
  IN IF hits = {} THEN <<TOOLS[1]>>
     ELSE <<TOOLS[CHOOSE i \in hits : \A j \in hits : i <= j]>>

\* mutant of get_tool_by_name: names are compared after strip() and lower()
get_tool_by_name_folded(name) ==
  LET folded == IF name \in {"Info", " info"} THEN "info" ELSE name
      hits == {i \in 1..Len(TOOLS) : TOOLS[i].name = folded}
  IN IF hits = {} THEN <<>>
     ELSE <<TOOLS[CHOOSE i \in hits : \A j \in hits : i <= j]>>

\* the first tool whose name equals `name` exactly, as <<tool>>; <<>> for None
get_tool_by_name(name) ==
  LET hits == {i \in 1..Len(TOOLS) : TOOLS[i].name = name}
  IN IF hits = {} THEN <<>>
     ELSE <<TOOLS[CHOOSE i \in hits : \A j \in hits : i <= j]>>

----------------------------------------------------------------------------
\* The handlers and the two front-ends the verification scripts inspect
\* (mcp_server/handlers/gurddy.py, MCPStdioServer, the HTTP tool registry).

\* the names of the registry, as a set
RegistryNames == {TOOLS[i].name : i \in 1..Len(TOOLS)}

\* a function of the handlers module: whether the attribute exists, whether
\* get_type_hints resolves its annotations, its formal parameters (with the JSON
\* type of their hint) and those without a default value
SignatureOf(tool) ==
  [exists |-> TRUE, hints |-> TRUE, params |-> tool.properties, required |-> tool.required]

NoFunction == [exists |-> FALSE, hints |-> FALSE, params |-> {}, required |-> {}]

\* the signatures a handler may have when the scripts run: the one the schema was
\* generated from, none (the function is gone), no parameter at all, every
\* parameter given a default, one parameter added, an annotation that names a type
\* the module does not define (get_type_hints raises NameError)
SignatureChoices(tool) ==
  { SignatureOf(tool),
    NoFunction,
    [SignatureOf(tool) EXCEPT !.params = {}, !.required = {}],
    [SignatureOf(tool) EXCEPT !.required = {}],
    [SignatureOf(tool) EXCEPT !.params = tool.properties \cup {<<"verbose", "boolean">>}],
    [SignatureOf(tool) EXCEPT !.hints = FALSE] }

HandlerModules ==
  { m \in [{TOOLS[i].function : i \in 1..Len(TOOLS)} ->
             UNION {SignatureChoices(TOOLS[i]) : i \in 1..Len(TOOLS)}] :
      \A i \in 1..Len(TOOLS) : m[TOOLS[i].function] \in SignatureChoices(TOOLS[i]) }

HandlersAsGenerated ==
  [f \in {TOOLS[i].function : i \in 1..Len(TOOLS)} |->
     SignatureOf(TOOLS[CHOOSE i \in 1..Len(TOOLS) : TOOLS[i].function = f])]

\* tool-name sets a front-end may expose: the registry's, one tool short, one tool
\* replaced by another, one tool more
ExposedChoices ==
  { RegistryNames,
    RegistryNames \ {"solve_graph_coloring"},
    (RegistryNames \ {"solve_graph_coloring"}) \cup {"Info"},
    RegistryNames \cup {"Info"} }

\* MCPStdioServer(): up (the constructor returned), server.tools (its keys),
\* server.function_map (its keys), and the tools whose description or inputSchema
\* differ from the registry's
StdioAsGenerated ==
  [up |-> TRUE, tools |-> RegistryNames, function_map |-> RegistryNames, stale |-> {}]

StdioChoices ==
  { [StdioAsGenerated EXCEPT !.tools = names] : names \in ExposedChoices }
    \cup { [StdioAsGenerated EXCEPT !.up = FALSE],
           [StdioAsGenerated EXCEPT !.function_map = RegistryNames \ {"info"}],
           [StdioAsGenerated EXCEPT !.stale = {"info"}] }

\* get_registry(): up, registry.get_tools() (its keys) and the names for which
\* registry.get_handler returns a handler
HttpAsGenerated == [up |-> TRUE, tools |-> RegistryNames, handlers |-> RegistryNames]

HttpChoices ==
  { [HttpAsGenerated EXCEPT !.tools = names] : names \in ExposedChoices }
    \cup { [HttpAsGenerated EXCEPT !.up = FALSE],
           [HttpAsGenerated EXCEPT !.handlers = RegistryNames \ {"info"}] }

----------------------------------------------------------------------------
\* scripts/validate_schema_consistency.py and scripts/verify_consistency.py

\* `from mcp_server.tool_registry import TOOLS`: the registry of the checkout, or
\* the one generate_registry.main has written over it
ImportedTOOLS == IF generated = <<>> THEN TOOLS ELSE generated

\* set(input_schema.get("properties", {}).keys())
get_schema_params(tool) == Keys(tool.properties)

\* the exception that import_module, getattr or inspect.signature raises inside the
\* try block of get_function_signature_params, "" when they return
SignatureError(mod, function_name) ==
  IF mod[function_name].exists THEN "" ELSE "AttributeError"

\* mutant of Propagated: the except clause names ImportError only
PropagatedUnlessImportError(error) == IF error = "ImportError" THEN "" ELSE error

\* `except Exception as e`: the exception that leaves get_function_signature_params
\* when its try block raised `error`; "" for none, every Exception being caught
\* (the three classes below derive from BaseException only)
Propagated(error) ==
  IF error \in {"SystemExit", "KeyboardInterrupt", "GeneratorExit"} THEN error ELSE ""

\* set(sig.parameters.keys()), or set() when import, getattr or signature raises
get_function_signature_params(mod, function_name) ==
  IF SignatureError(mod, function_name) # "" THEN {}
  ELSE Keys(mod[function_name].params)

\* whether validate_tool_consistency leaves by an exception instead of returning
ValidationRaises(mod) ==
  \E i \in 1..Len(ImportedTOOLS) :
    Propagated(SignatureError(mod, ImportedTOOLS[i].function)) # ""

\* one round of the loop over ImportedTOOLS: nothing when function_params is empty
\* (`continue`), else an entry when the two name sets differ
ToolIssue(mod, tool) ==
  LET schema_params == get_schema_params(tool)
      function_params == get_function_signature_params(mod, tool.function)
      missing_in_schema == function_params \ schema_params
      extra_in_schema == schema_params \ function_params
  IN IF function_params = {} THEN <<>>
     ELSE IF missing_in_schema # {} \/ extra_in_schema # {}
       THEN <<[tool_name |-> tool.name, missing_in_schema |-> missing_in_schema,
               extra_in_schema |-> extra_in_schema]>>
     ELSE <<>>

RECURSIVE ConsistencyLoop(_, _)
ConsistencyLoop(mod, k) ==
  IF k = 0 THEN <<>> ELSE ConsistencyLoop(mod, k - 1) \o ToolIssue(mod, ImportedTOOLS[k])

\* the list `inconsistencies`, in the order of ImportedTOOLS
validate_tool_consistency(mod) == ConsistencyLoop(mod, Len(ImportedTOOLS))

\* validate_schema_consistency.main: return 0 if not inconsistencies, else 1
ValidateExit(inconsistencies) == IF inconsistencies = <<>> THEN <<0>> ELSE <<1>>

\* the checks of verify_consistency return "True" or "False", or they raise
verify_schemas ==
  IF \A i \in 1..Len(ImportedTOOLS) :
       /\ {"name", "function", "module", "type", "properties", "required"}
            \subseteq DOMAIN ImportedTOOLS[i]
       /\ ImportedTOOLS[i].type = "object"
    THEN "True" ELSE "False"

verify_schema_consistency(mod) ==
  IF ValidationRaises(mod) THEN "raise"
  ELSE IF validate_tool_consistency(mod) # <<>> THEN "False" ELSE "True"

verify_handlers(mod) ==
  IF \E i \in 1..Len(ImportedTOOLS) : ~mod[ImportedTOOLS[i].function].exists THEN "False" ELSE "True"

verify_stdio_server(server) ==
  IF ~server.up THEN "raise"
  ELSE IF Cardinality(server.tools) # Len(ImportedTOOLS) THEN "False"
  ELSE IF \E i \in 1..Len(ImportedTOOLS) :
            ImportedTOOLS[i].name \notin server.tools \/ ImportedTOOLS[i].name \notin server.function_map
    THEN "False"
  ELSE IF \E n \in server.tools : get_tool_by_name(n) = <<>> THEN "raise"
  ELSE IF server.stale \cap server.tools # {} THEN "False"
  ELSE "True"

\* mutant of verify_http_server: the tool counts are not compared
verify_http_server_uncounted(registry) ==
  IF ~registry.up THEN "raise"
  ELSE IF \E i \in 1..Len(ImportedTOOLS) : ImportedTOOLS[i].name \notin registry.tools THEN "False"
  ELSE IF \E i \in 1..Len(ImportedTOOLS) : ImportedTOOLS[i].name \notin registry.handlers THEN "False"
  ELSE "True"

verify_http_server(registry) ==
  IF ~registry.up THEN "raise"
  ELSE IF Cardinality(registry.tools) # Len(ImportedTOOLS) THEN "False"
  ELSE IF \E i \in 1..Len(ImportedTOOLS) : ImportedTOOLS[i].name \notin registry.tools THEN "False"
  ELSE IF \E i \in 1..Len(ImportedTOOLS) : ImportedTOOLS[i].name \notin registry.handlers THEN "False"
  ELSE "True"

\* `checks` of verify_consistency.main
Checks ==
  <<"Schemas", "Schema-Function Consistency", "Handlers", "Stdio Server", "HTTP Server">>

RunCheck(k) ==
  CASE k = 1 -> verify_schemas
    [] k = 2 -> verify_schema_consistency(gurddy)
    [] k = 3 -> verify_handlers(gurddy)
    [] k = 4 -> verify_stdio_server(stdio_server)
    [] k = 5 -> verify_http_server(http_registry)

\* try: result = check_func() / except Exception: results.append((name, False))
CheckResult(k) == <<Checks[k], RunCheck(k) = "True">>

\* mutant of all_passed: only the last check decides
all_passed_last(rs) == rs[Len(rs)][2]

\* the summary loop: all_passed stays True only if every result is true
all_passed(rs) == \A k \in 1..Len(rs) : rs[k][2]

VerifyExit(rs) == IF all_passed(rs) THEN <<0>> ELSE <<1>>

----------------------------------------------------------------------------
\* scripts/generate_registry.py

\* mcp_server/tool_definitions.py: the registry entries without their schema
TOOL_DEFINITIONS ==
  [i \in 1..Len(TOOLS) |->
     [name |-> TOOLS[i].name, function |-> TOOLS[i].function, module |-> TOOLS[i].module]]

\* mutant of generate_schema: only the parameters that have a default get a property
generate_schema_defaults(mod, function_name) ==
  LET func == mod[function_name]
  IN IF func.exists /\ func.hints
       THEN [type |-> "object",
             properties |-> {p \in func.params : p[1] \notin func.required},
             required |-> func.required]
       ELSE [type |-> "object", properties |-> {}, required |-> {}]

\* the schema of one handler: a property for every parameter, required those
\* without a default; when import_module, getattr, signature or get_type_hints
\* raises, the empty schema
generate_schema(mod, function_name) ==
  LET func == mod[function_name]
  IN IF func.exists /\ func.hints
       THEN [type |-> "object", properties |-> func.params, required |-> func.required]
       ELSE [type |-> "object", properties |-> {}, required |-> {}]

\* the list `tools` that main writes into tool_registry.py
GenerateTools(mod) ==
  [i \in 1..Len(TOOL_DEFINITIONS) |->
     LET tool_def == TOOL_DEFINITIONS[i]
         schema == generate_schema(mod, tool_def.function)
     IN [name |-> tool_def.name, function |-> tool_def.function,
         module |-> tool_def.module, type |-> schema.type,
         properties |-> schema.properties, required |-> schema.required]]

----------------------------------------------------------------------------
\* Client side: building requests (both clients build the same envelope).

\* mutants of GetNextId: the counter is returned without being advanced; the
\* counter is started afresh on every call
GetNextIdStuck(n) == n

GetNextIdReset(n) == 1

\* _get_next_id / _next_id: self.request_id += 1; return self.request_id
GetNextId(n) == n + 1

\* {"jsonrpc": "2.0", "id": ..., "method": ..., ["params": ...]}
NewRequest(id, method, name, args, signal) ==
  [id |-> id, hasId |-> TRUE, method |-> method, name |-> name, args |-> args,
   signal |-> signal]

\* the error _make_request returns when requests raises RequestException
HttpErrorCode == -32603

\* mutant of TransportError: the error envelope carries no request id
TransportErrorNullId(req) ==
  [id |-> 0, kind |-> "error", err |-> "InternalError", code |-> HttpErrorCode,
   payload |-> NoPayload]

TransportError(req) ==
  [id |-> req.id, kind |-> "error", err |-> "InternalError", code |-> HttpErrorCode,
   payload |-> NoPayload]

LogSent(req) == Append(sent, req.id)

\* the exchanges the client has open, and those with a request outstanding
Exchanges == {hx, rx} \cup {streams[i].x : i \in 1..MaxStreams}

InFlight == {x \in Exchanges : x.st # "none"}

\* a response handed to the caller that posted req; pending: whether its id is the
\* id of a request outstanding at that moment
LogDelivered(req, resp) ==
  [req |-> req.id, resp |-> resp.id, kind |-> resp.kind,
   pending |-> resp.id \in {x.req.id : x \in InFlight}]

NoDelivery == [req |-> 0, resp |-> 0, kind |-> "none", pending |-> FALSE]

----------------------------------------------------------------------------
\* Server side (specification sections 4.2, 4.4, 6, 7).

ErrorCode(class) ==
  CASE class = "MethodNotFound" -> -32601
    [] class = "InvalidParams" -> -32602
    [] class = "InternalError" -> -32603
    [] class = "InvalidRequest" -> -32600
    [] class = "NotInitialized" -> -32002
    [] OTHER -> -32000

ErrorResponse(req, class) ==
  [id |-> req.id, kind |-> IF req.hasId THEN "error" ELSE "none", err |-> class,
   code |-> ErrorCode(class), payload |-> NoPayload]

ResultResponse(req, payload) ==
  [id |-> req.id, kind |-> IF req.hasId THEN "result" ELSE "none", err |-> "",
   code |-> 0, payload |-> payload]

ServerProtocolVersion == "2024-11-05"

InitializeResult ==
  [NoPayload EXCEPT !.serverInfo = "gurddy-mcp", !.capabilities = "tools",
                    !.protocolVersion = ServerProtocolVersion]

\* step 2 of the dispatch: required present, no unknown key, types as declared
ValidArguments(tool, args) ==
  /\ tool.required \subseteq Keys(args)
  /\ Keys(args) \subseteq Keys(tool.properties)
  /\ args \subseteq tool.properties

\* the serialized return value of a handler, as one text content item
Serialize(value) == "json:" \o value

HandlerReturn(name) == "{success:" \o name \o "}"

\* mutant of WrapResult: the return value is passed on, not serialized, next to a
\* second content item
WrapResultRaw(value) == <<[type |-> "text", text |-> value], [type |-> "json", text |-> value]>>

WrapResult(value) == <<[type |-> "text", text |-> Serialize(value)]>>

\* tools/call on a Ready session; outcome is what the invoked handler does
Dispatch(req, outcome) ==
  LET found == get_tool_by_name(req.name)
  IN IF found = <<>>
       THEN [resp |-> ErrorResponse(req, "MethodNotFound"), invoked |-> FALSE]
     ELSE IF ~ValidArguments(found[1], req.args)
       THEN [resp |-> ErrorResponse(req, "InvalidParams"), invoked |-> FALSE]
     ELSE IF outcome = "raise"
       THEN [resp |-> ErrorResponse(req, "InternalError"), invoked |-> TRUE]
     ELSE [resp |-> ResultResponse(req, [NoPayload EXCEPT
                       !.content = WrapResult(HandlerReturn(req.name))]),
           invoked |-> TRUE]

ListResult == [NoPayload EXCEPT !.tools = get_all_tool_names]

Keep(s, resp) == [sess |-> s, resp |-> resp, invoked |-> FALSE]

\* mutant of OnClosed: initialize on a closed session starts a new handshake
OnClosedReopen(s, req) ==
  IF req.method = "initialize"
    THEN [sess |-> [s EXCEPT !.state = "Initializing"],
          resp |-> ResultResponse(req, InitializeResult), invoked |-> FALSE]
    ELSE Keep(s, ErrorResponse(req, "SessionClosed"))

\* Closed: accepts none
OnClosed(s, req) == Keep(s, ErrorResponse(req, "SessionClosed"))

Negotiated(s) ==
  [s EXCEPT !.protocolVersion = ServerProtocolVersion, !.capabilities = "tools"]

\* mutant of OnUninitialized: tools/list is served without a handshake
OnUninitializedUngated(s, req) ==
  IF req.method = "initialize"
    THEN [sess |-> [Negotiated(s) EXCEPT !.state = "Initializing"],
          resp |-> ResultResponse(req, InitializeResult), invoked |-> FALSE]
  ELSE IF req.method = "tools/list"
    THEN Keep(s, ResultResponse(req, ListResult))
    ELSE Keep(s, ErrorResponse(req, "NotInitialized"))

\* mutant of OnUninitialized: the handshake completes on initialize alone
OnUninitializedOnePhase(s, req) ==
  IF req.method = "initialize"
    THEN [sess |-> [Negotiated(s) EXCEPT !.state = "Ready"],
          resp |-> ResultResponse(req, InitializeResult), invoked |-> FALSE]
    ELSE Keep(s, ErrorResponse(req, "NotInitialized"))

\* Uninitialized: accepts initialize, answers it and moves to Initializing
OnUninitialized(s, req) ==
  IF req.method = "initialize"
    THEN [sess |-> [Negotiated(s) EXCEPT !.state = "Initializing"],
          resp |-> ResultResponse(req, InitializeResult), invoked |-> FALSE]
    ELSE Keep(s, ErrorResponse(req, "NotInitialized"))

\* mutant of OnInitializing: a second initialize renegotiates the session
OnInitializingAgain(s, req) ==
  IF req.method = "notifications/initialized"
    THEN [sess |-> [s EXCEPT !.state = "Ready"],
          resp |-> ResultResponse(req, NoPayload), invoked |-> FALSE]
  ELSE IF req.method = "initialize"
    THEN [sess |-> [s EXCEPT !.capabilities = "renegotiated"],
          resp |-> ResultResponse(req, InitializeResult), invoked |-> FALSE]
    ELSE Keep(s, ErrorResponse(req, "NotInitialized"))

\* Initializing: the initialized notification completes the handshake; a second
\* initialize and every other request is rejected
OnInitializing(s, req) ==
  IF req.method = "notifications/initialized"
    THEN [sess |-> [s EXCEPT !.state = "Ready"],
          resp |-> ResultResponse(req, NoPayload), invoked |-> FALSE]
  ELSE IF req.method = "initialize"
    THEN Keep(s, ErrorResponse(req, "InvalidRequest"))
    ELSE Keep(s, ErrorResponse(req, "NotInitialized"))

\* Ready: all methods; initialize is rejected
OnReady(s, req, outcome) ==
  IF req.method = "initialize"
    THEN Keep(s, ErrorResponse(req, "InvalidRequest"))
  ELSE IF req.method = "notifications/initialized"
    THEN Keep(s, ResultResponse(req, NoPayload))
  ELSE IF req.method = "tools/list"
    THEN Keep(s, ResultResponse(req, ListResult))
  ELSE IF req.method = "tools/call"
    THEN LET d == Dispatch(req, outcome)
         IN [sess |-> s, resp |-> d.resp, invoked |-> d.invoked]
    ELSE Keep(s, ErrorResponse(req, "MethodNotFound"))

\* the session state machine of section 4.2 applied to one request
ServerReply(s, req, outcome) ==
  CASE s.state = "Closed" -> OnClosed(s, req)
    [] s.state = "Uninitialized" -> OnUninitialized(s, req)
    [] s.state = "Initializing" -> OnInitializing(s, req)
    [] s.state = "Ready" -> OnReady(s, req, outcome)

----------------------------------------------------------------------------
NoStream == [st |-> "none", method |-> "", name |-> "", args |-> {}, signal |-> "none",
             x |-> NoExchange]

Init ==
  /\ program \in Programs
  /\ request_id = 0
  /\ initialized = FALSE
  /\ server_info = "None"
  /\ capabilities = "None"
  /\ hpc = "idle"
  /\ hres = NoResp
  /\ listed = <<>>
  /\ hret = NoResp
  /\ hx = NoExchange
  /\ spc = "idle"
  /\ rx = NoExchange
  /\ streams = [i \in 1..MaxStreams |-> NoStream]
  /\ session = NewSession
  /\ invocations = {}
  /\ sent = <<>>
  /\ delivered = NoDelivery
  /\ gurddy = HandlersAsGenerated
  /\ stdio_server = StdioAsGenerated
  /\ http_registry = HttpAsGenerated
  /\ script = "none"
  /\ results = <<>>
  /\ report = <<>>
  /\ exit_status = <<>>
  /\ generated = <<>>
  /\ hook = NoHook

----------------------------------------------------------------------------
\* MCPHTTPClient

\* _make_request up to requests.post: allocate the id, build and post the request
HSend(op, method, name, args) ==
  LET id == GetNextId(request_id)
      req == NewRequest(id, method, name, args, "none")
  IN /\ request_id' = id
     /\ hx' = [NoExchange EXCEPT !.st = "sent", !.req = req]
     /\ sent' = LogSent(req)
     /\ hpc' = op

\* initialize(), first half: post the initialize request
HInitialize ==
  /\ program = "http"
  /\ hpc = "idle"
  /\ request_id + 2 <= MaxHttpRequests
  /\ HSend("initialize", "initialize", "", NoArgs)
  /\ UNCHANGED <<program, tvars, svars, initialized, server_info, capabilities, hres, listed, hret,
                 session, invocations, delivered>>

\* mutant of HListTools: the request is posted whether or not the client is initialized
HListToolsUngated ==
  /\ program = "http"
  /\ hpc = "idle"
  /\ request_id < MaxHttpRequests
  /\ HSend("list_tools", "tools/list", "", NoArgs)
  /\ UNCHANGED <<program, tvars, svars, initialized, server_info, capabilities, hres, listed, hret,
                 session, invocations, delivered>>

\* list_tools()
HListTools ==
  /\ program = "http"
  /\ hpc = "idle"
  /\ IF ~initialized
       THEN /\ hret' = ClientNotInitialized
            /\ UNCHANGED <<request_id, hx, sent, hpc>>
       ELSE /\ request_id < MaxHttpRequests
            /\ HSend("list_tools", "tools/list", "", NoArgs)
            /\ UNCHANGED hret
  /\ UNCHANGED <<program, tvars, svars, initialized, server_info, capabilities, hres, listed, session,
                 invocations, delivered>>

\* call_tool(tool_name, arguments)
HCallTool ==
  /\ program = "http"
  /\ hpc = "idle"
  /\ \E name \in NameChoices, args \in ArgChoices :
       IF ~initialized
         THEN /\ hret' = ClientNotInitialized
              /\ UNCHANGED <<request_id, hx, sent, hpc>>
         ELSE /\ request_id < MaxHttpRequests
              /\ HSend("call_tool", "tools/call", name, args)
              /\ UNCHANGED hret
  /\ UNCHANGED <<program, tvars, svars, initialized, server_info, capabilities, hres, listed, session,
                 invocations, delivered>>

\* mutant of MakeRequestReturn: whatever has arrived of the response is returned
\* although the transport failed
MakeRequestReturnPartial(x, fail) == x.resp

\* what _make_request returns to its caller, given what requests.post produced
\* (fail: a RequestException was raised)
MakeRequestReturn(x, fail) == IF fail THEN TransportError(x.req) ELSE x.resp

\* mutant of HInitializeReturn: an error response clears the three fields
HInitializeReturnClears(fail) ==
  LET result == MakeRequestReturn(hx, fail)
  IN /\ delivered' = LogDelivered(hx.req, result)
     /\ IF result.kind = "result"
          THEN /\ initialized' = TRUE
               /\ server_info' = result.payload.serverInfo
               /\ capabilities' = result.payload.capabilities
               /\ hres' = result
               /\ HSend("notify", "notifications/initialized", "", NoArgs)
               /\ UNCHANGED hret
          ELSE /\ hret' = result
               /\ hpc' = "idle"
               /\ hx' = NoExchange
               /\ initialized' = FALSE
               /\ server_info' = "None"
               /\ capabilities' = "None"
               /\ UNCHANGED <<hres, request_id, sent>>
     /\ UNCHANGED listed

\* _make_request returns inside initialize(): on "result" set the fields and post
\* the initialized notification, else return the response
HInitializeReturn(fail) ==
  LET result == MakeRequestReturn(hx, fail)
  IN /\ delivered' = LogDelivered(hx.req, result)
     /\ IF result.kind = "result"
          THEN /\ initialized' = TRUE
               /\ server_info' = result.payload.serverInfo
               /\ capabilities' = result.payload.capabilities
               /\ hres' = result
               /\ HSend("notify", "notifications/initialized", "", NoArgs)
               /\ UNCHANGED hret
          ELSE /\ hret' = result
               /\ hpc' = "idle"
               /\ hx' = NoExchange
               /\ UNCHANGED <<initialized, server_info, capabilities, hres, request_id,
                              sent>>
     /\ UNCHANGED listed

\* _make_request("notifications/initialized") returns; initialize() returns `result`
HNotifyReturn(fail) ==
  LET ignored == MakeRequestReturn(hx, fail)
  IN /\ delivered' = LogDelivered(hx.req, ignored)
     /\ hret' = hres
     /\ hres' = NoResp
     /\ hpc' = "idle"
     /\ hx' = NoExchange
     /\ UNCHANGED <<initialized, server_info, capabilities, request_id, sent, listed>>

\* mutant of HCallReturn: a failed call marks the client as not initialized
HCallReturnReset(fail) ==
  LET result == MakeRequestReturn(hx, fail)
  IN /\ delivered' = LogDelivered(hx.req, result)
     /\ hret' = result
     /\ hpc' = "idle"
     /\ hx' = NoExchange
     /\ initialized' = (result.kind # "error")
     /\ listed' = IF hpc = "list_tools" /\ result.kind = "result"
                     THEN Append(listed, result.payload.tools)
                     ELSE listed
     /\ UNCHANGED <<server_info, capabilities, hres, request_id, sent>>

\* _make_request returns inside list_tools() / call_tool(); the caller keeps the
\* tool lists it got (tools_result = client.list_tools())
HCallReturn(fail) ==
  LET result == MakeRequestReturn(hx, fail)
  IN /\ delivered' = LogDelivered(hx.req, result)
     /\ hret' = result
     /\ hpc' = "idle"
     /\ hx' = NoExchange
     /\ listed' = IF hpc = "list_tools" /\ result.kind = "result"
                     THEN Append(listed, result.payload.tools)
                     ELSE listed
     /\ UNCHANGED <<initialized, server_info, capabilities, hres, request_id, sent>>

HReturn(fail) ==
  CASE hpc = "initialize" -> HInitializeReturn(fail)
    [] hpc = "notify" -> HNotifyReturn(fail)
    [] OTHER -> HCallReturn(fail)

\* the HTTP response arrives and is decoded
HReceive ==
  /\ hpc # "idle"
  /\ hx.st = "answered"
  /\ HReturn(FALSE)
  /\ UNCHANGED <<program, tvars, svars, session, invocations>>

\* requests raises RequestException (connection error, timeout, bad status):
\* before the server saw the request, or after it handled it
HTransportFailure ==
  /\ hpc # "idle"
  /\ hx.st \in {"sent", "answered"}
  /\ HReturn(TRUE)
  /\ UNCHANGED <<program, tvars, svars, session, invocations>>

----------------------------------------------------------------------------
\* StreamableMCPClient

\* what the example caller passes as (method, tool name, arguments)
StreamCalls ==
  { <<"initialize", "", {}>>,
    <<"notifications/initialized", "", {}>>,
    <<"tools/list", "", {}>> }

\* mutant of StreamingHeader: without use_accept_header no header is set
StreamingHeaderAcceptOnly(use_accept_header) ==
  IF use_accept_header THEN "accept" ELSE "none"

\* headers of call_streaming: Accept: text/event-stream, or X-Stream: true
StreamingHeader(use_accept_header) == IF use_accept_header THEN "accept" ELSE "x-stream"

\* headers of call_regular: Content-Type only
RegularHeader == "none"

\* call_regular up to requests.post
SCallRegular ==
  /\ program = "stream"
  /\ spc = "idle"
  /\ request_id < MaxRequests
  /\ \E call \in StreamCalls :
       LET id == GetNextId(request_id)
           req == NewRequest(id, call[1], call[2], call[3], RegularHeader)
       IN /\ request_id' = id
          /\ rx' = [NoExchange EXCEPT !.st = "sent", !.req = req]
          /\ sent' = LogSent(req)
  /\ spc' = "regular"
  /\ UNCHANGED <<program, tvars, hvars, streams, session, invocations, delivered>>

\* call_regular: raise_for_status passed, return response.json()
SRegularReturn ==
  /\ spc = "regular"
  /\ rx.st = "answered"
  /\ delivered' = LogDelivered(rx.req, rx.resp)
  /\ rx' = NoExchange
  /\ spc' = "idle"
  /\ UNCHANGED <<program, tvars, request_id, hvars, streams, session, invocations, sent>>

\* call_regular: requests.post or raise_for_status raises; the exception reaches
\* the caller and nothing is returned
SRegularRaise ==
  /\ spc = "regular"
  /\ rx.st \in {"sent", "answered"}
  /\ rx' = NoExchange
  /\ spc' = "idle"
  /\ UNCHANGED <<program, tvars, request_id, hvars, streams, session, invocations, sent,
                 delivered>>

\* mutant of SCallStreaming: the id is taken when call_streaming is called
SCallStreamingEager(i) ==
  /\ program = "stream"
  /\ spc = "idle"
  /\ streams[i].st = "none"
  /\ request_id < MaxRequests
  /\ request_id' = GetNextId(request_id)
  /\ \E call \in StreamCalls, use_accept_header \in BOOLEAN :
       streams' = [streams EXCEPT ![i] =
                     [st |-> "created", method |-> call[1], name |-> call[2],
                      args |-> call[3], signal |-> StreamingHeader(use_accept_header),
                      x |-> NoExchange]]
  /\ UNCHANGED <<program, tvars, hvars, spc, rx, session, invocations, sent, delivered>>

\* call_streaming(...) is called: a generator object is returned, none of its body runs
SCallStreaming(i) ==
  /\ program = "stream"
  /\ spc = "idle"
  /\ streams[i].st = "none"
  /\ \A j \in 1..(i - 1) : streams[j].st # "none"
  /\ \E call \in StreamCalls, use_accept_header \in BOOLEAN :
       streams' = [streams EXCEPT ![i] =
                     [st |-> "created", method |-> call[1], name |-> call[2],
                      args |-> call[3], signal |-> StreamingHeader(use_accept_header),
                      x |-> NoExchange]]
  /\ UNCHANGED <<program, tvars, request_id, hvars, spc, rx, session, invocations, sent,
                 delivered>>

\* first next() on the generator: the body runs up to requests.post(stream=True)
SStreamStart(i) ==
  /\ spc = "idle"
  /\ streams[i].st = "created"
  /\ request_id < MaxRequests
  /\ LET id == GetNextId(request_id)
         g == streams[i]
         req == NewRequest(id, g.method, g.name, g.args, g.signal)
     IN /\ request_id' = id
        /\ streams' = [streams EXCEPT ![i].st = "running",
                                      ![i].x = [NoExchange EXCEPT !.st = "sent", !.req = req]]
        /\ sent' = LogSent(req)
  /\ spc' = "next"
  /\ UNCHANGED <<program, tvars, hvars, rx, session, invocations, delivered>>

\* the response headers arrived: the generator is inside response.iter_lines()
SStreamOpen(i) ==
  /\ spc = "next"
  /\ streams[i].st = "running"
  /\ streams[i].x.st = "answered"
  /\ streams' = [streams EXCEPT ![i].st = "suspended"]
  /\ spc' = "idle"
  /\ UNCHANGED <<program, tvars, request_id, hvars, rx, session, invocations, sent, delivered>>

\* mutant of SStreamYield: the lines of the response are yielded last first
SStreamYieldLast(i) ==
  /\ spc = "idle"
  /\ streams[i].st = "suspended"
  /\ streams[i].x.frames # <<>>
  /\ LET frames == streams[i].x.frames
     IN /\ delivered' = LogDelivered(streams[i].x.req, frames[Len(frames)])
        /\ streams' = [streams EXCEPT ![i].x.frames = SubSeq(frames, 1, Len(frames) - 1)]
  /\ UNCHANGED <<program, tvars, request_id, hvars, spc, rx, session, invocations, sent>>

\* next(): the following "data: " line is decoded and yielded to the caller
SStreamYield(i) ==
  /\ spc = "idle"
  /\ streams[i].st = "suspended"
  /\ streams[i].x.frames # <<>>
  /\ delivered' = LogDelivered(streams[i].x.req, Head(streams[i].x.frames))
  /\ streams' = [streams EXCEPT ![i].x.frames = Tail(@)]
  /\ UNCHANGED <<program, tvars, request_id, hvars, spc, rx, session, invocations, sent>>

\* next(): iter_lines is exhausted, the generator returns (StopIteration)
SStreamStop(i) ==
  /\ spc = "idle"
  /\ streams[i].st = "suspended"
  /\ streams[i].x.frames = <<>>
  /\ streams' = [streams EXCEPT ![i] = [NoStream EXCEPT !.st = "done"]]
  /\ UNCHANGED <<program, tvars, request_id, hvars, spc, rx, session, invocations, sent,
                 delivered>>

\* requests.post, raise_for_status or iter_lines raises inside the generator: the
\* exception reaches the caller of next() and the generator is finished
SStreamRaise(i) ==
  /\ \/ spc = "next" /\ streams[i].st = "running"
     \/ spc = "idle" /\ streams[i].st = "suspended"
  /\ streams' = [streams EXCEPT ![i] = [NoStream EXCEPT !.st = "done"]]
  /\ spc' = "idle"
  /\ UNCHANGED <<program, tvars, request_id, hvars, rx, session, invocations, sent, delivered>>

----------------------------------------------------------------------------
\* Server

\* the frames of a streaming exchange: nprog intermediate frames, then the
\* terminal frame carrying the Response
ProgressFrame(req) ==
  [id |-> req.id, kind |-> "progress", err |-> "", code |-> 0, payload |-> NoPayload]

\* mutant of Frames: the stream ends without the frame that carries the Response
FramesWithoutTerminal(req, resp, nprog) == [k \in 1..(nprog + 1) |-> ProgressFrame(req)]

Frames(req, resp, nprog) == [k \in 1..(nprog + 1) |-> IF k <= nprog THEN ProgressFrame(req)
                                                                    ELSE resp]

\* the server handles the request of exchange x: the session moves, the handler may
\* be invoked, and the exchange is answered (buffered, or as frames when the request
\* carried the streaming signal)
Answered(x, outcome, nprog) ==
  LET r == ServerReply(session, x.req, outcome)
  IN [x EXCEPT !.st = "answered",
               !.before = session,
               !.after = r.sess,
               !.resp = IF x.req.signal = "none" THEN r.resp ELSE NoResp,
               !.frames = IF x.req.signal = "none" THEN <<>>
                          ELSE Frames(x.req, r.resp, nprog)]

Serve(x, outcome) ==
  LET r == ServerReply(session, x.req, outcome)
  IN /\ session' = r.sess
     /\ invocations' = IF r.invoked
                         THEN invocations \cup {x.req.id}
                         ELSE invocations

ServeHttp ==
  /\ hx.st = "sent"
  /\ \E outcome \in {"return", "raise"} :
       /\ Serve(hx, outcome)
       /\ hx' = Answered(hx, outcome, 0)
  /\ UNCHANGED <<program, tvars, request_id, initialized, server_info, capabilities, hpc, hres, listed,
                 hret, svars, sent, delivered>>

ServeRegular ==
  /\ rx.st = "sent"
  /\ \E outcome \in {"return", "raise"} :
       /\ Serve(rx, outcome)
       /\ rx' = Answered(rx, outcome, 0)
  /\ UNCHANGED <<program, tvars, request_id, hvars, spc, streams, sent, delivered>>

ServeStream(i) ==
  /\ streams[i].x.st = "sent"
  /\ \E outcome \in {"return", "raise"}, nprog \in 0..MaxProgress :
       /\ Serve(streams[i].x, outcome)
       /\ streams' = [streams EXCEPT ![i].x = Answered(@, outcome, nprog)]
  /\ UNCHANGED <<program, tvars, request_id, hvars, spc, rx, sent, delivered>>

\* transport close or explicit close of the session
CloseSession ==
  /\ session.state # "Closed"
  /\ session' = [session EXCEPT !.state = "Closed"]
  /\ UNCHANGED <<program, tvars, request_id, hvars, svars, invocations, sent, delivered>>

----------------------------------------------------------------------------
Next ==
  \/ HInitialize
  \/ HListTools
  \/ HCallTool
  \/ HReceive
  \/ HTransportFailure
  \/ ServeHttp
  \/ SCallRegular
  \/ SRegularReturn
  \/ SRegularRaise
  \/ \E i \in 1..MaxStreams : SCallStreaming(i)
  \/ \E i \in 1..MaxStreams : SStreamStart(i)
  \/ \E i \in 1..MaxStreams : SStreamOpen(i)
  \/ \E i \in 1..MaxStreams : SStreamYield(i)
  \/ \E i \in 1..MaxStreams : SStreamStop(i)
  \/ \E i \in 1..MaxStreams : SStreamRaise(i)
  \/ ServeRegular
  \/ \E i \in 1..MaxStreams : ServeStream(i)
  \/ CloseSession

Spec == Init /\ [][Next]_vars

\* the behaviours of http_mcp_client.py alone
InitHttp == Init /\ program = "http"

NextHttp ==
  \/ HInitialize
  \/ HListTools
  \/ HCallTool
  \/ HReceive
  \/ HTransportFailure
  \/ ServeHttp
  \/ CloseSession

SpecHttp == InitHttp /\ [][NextHttp]_vars

\* the behaviours of streamable_http_client.py alone
InitStream == Init /\ program = "stream"

NextStream ==
  \/ SCallRegular
  \/ SRegularReturn
  \/ SRegularRaise
  \/ \E i \in 1..MaxStreams : SCallStreaming(i)
  \/ \E i \in 1..MaxStreams : SStreamStart(i)
  \/ \E i \in 1..MaxStreams : SStreamOpen(i)
  \/ \E i \in 1..MaxStreams : SStreamYield(i)
  \/ \E i \in 1..MaxStreams : SStreamStop(i)
  \/ \E i \in 1..MaxStreams : SStreamRaise(i)
  \/ ServeRegular
  \/ \E i \in 1..MaxStreams : ServeStream(i)
  \/ CloseSession

SpecStream == InitStream /\ [][NextStream]_vars

----------------------------------------------------------------------------
\* A peer that violates the protocol: the body of the HTTP response carries the id
\* of no outstanding request.

StrayAnswer(x) ==
  [x EXCEPT !.st = "answered", !.before = session, !.after = session,
            !.resp = [id |-> x.req.id + 1, kind |-> "result", err |-> "", code |-> 0,
                      payload |-> NoPayload]]

StrayHttp ==
  /\ hx.st = "sent"
  /\ hx' = StrayAnswer(hx)
  /\ UNCHANGED <<program, tvars, request_id, initialized, server_info, capabilities, hpc, hres, listed,
                 hret, svars, session, invocations, sent, delivered>>

StrayRegular ==
  /\ rx.st = "sent"
  /\ rx' = StrayAnswer(rx)
  /\ UNCHANGED <<program, tvars, request_id, hvars, spc, streams, session, invocations, sent,
                 delivered>>

NextStray ==
  \/ Next
  \/ StrayHttp
  \/ StrayRegular

SpecStray == Init /\ [][NextStray]_vars

----------------------------------------------------------------------------
\* The verification and generation scripts, run on whatever handlers and front-ends
\* the checkout holds.

InitScripts ==
  /\ program = "scripts"
  /\ request_id = 0
  /\ initialized = FALSE
  /\ server_info = "None"
  /\ capabilities = "None"
  /\ hpc = "idle"
  /\ hres = NoResp
  /\ listed = <<>>
  /\ hret = NoResp
  /\ hx = NoExchange
  /\ spc = "idle"
  /\ rx = NoExchange
  /\ streams = [i \in 1..MaxStreams |-> NoStream]
  /\ session = NewSession
  /\ invocations = {}
  /\ sent = <<>>
  /\ delivered = NoDelivery
  /\ gurddy \in HandlerModules
  /\ stdio_server \in StdioChoices
  /\ http_registry \in HttpChoices
  /\ script = "none"
  /\ results = <<>>
  /\ report = <<>>
  /\ exit_status = <<>>
  /\ generated = <<>>
  /\ hook = NoHook

pvars == <<program, request_id, hvars, svars, session, invocations, sent, delivered>>

\* python scripts/validate_schema_consistency.py: main prints the report and exits
\* with its status; an exception out of validate_tool_consistency ends the process
\* with a traceback and status 1
ValidateMain ==
  /\ script = "none"
  /\ IF ValidationRaises(gurddy)
       THEN /\ script' = "validate_schema_consistency.raised"
            /\ exit_status' = <<1>>
            /\ UNCHANGED report
       ELSE LET inconsistencies == validate_tool_consistency(gurddy)
            IN /\ report' = inconsistencies
               /\ exit_status' = ValidateExit(inconsistencies)
               /\ script' = "validate_schema_consistency.exited"
  /\ UNCHANGED <<pvars, gurddy, stdio_server, http_registry, results, generated, hook>>

\* python scripts/verify_consistency.py: main is entered
VerifyMain ==
  /\ script = "none"
  /\ script' = "verify_consistency"
  /\ UNCHANGED <<pvars, gurddy, stdio_server, http_registry, results, report,
                 exit_status, generated, hook>>

\* one round of the loop over `checks`
VerifyCheck ==
  /\ script = "verify_consistency"
  /\ Len(results) < Len(Checks)
  /\ LET k == Len(results) + 1
     IN /\ results' = Append(results, CheckResult(k))
        /\ report' = IF k = 2 /\ ~ValidationRaises(gurddy)
                       THEN validate_tool_consistency(gurddy) ELSE report
  /\ UNCHANGED <<pvars, gurddy, stdio_server, http_registry, script, exit_status,
                 generated, hook>>

\* the summary, and sys.exit(main())
VerifySummary ==
  /\ script = "verify_consistency"
  /\ Len(results) = Len(Checks)
  /\ exit_status' = VerifyExit(results)
  /\ script' = "verify_consistency.exited"
  /\ UNCHANGED <<pvars, gurddy, stdio_server, http_registry, results, report, generated, hook>>

\* python scripts/generate_registry.py: main returns None, the process exits with 0
GenerateMain ==
  /\ script = "none"
  /\ generated' = GenerateTools(gurddy)
  /\ exit_status' = <<0>>
  /\ script' = "generate_registry.exited"
  /\ UNCHANGED <<pvars, gurddy, stdio_server, http_registry, results, report, hook>>

NextScripts ==
  \/ ValidateMain
  \/ VerifyMain
  \/ VerifyCheck
  \/ VerifySummary
  \/ GenerateMain

SpecScripts == InitScripts /\ [][NextScripts]_vars

----------------------------------------------------------------------------
\* scripts/build_hook.py

\* mutant of run_command: subprocess.run without check=True never raises
run_command_unchecked(status) == TRUE

\* run_command: True when the command exited with 0, False when subprocess.run
\* raised CalledProcessError (any other exit status)
run_command(status) == status = <<0>>

\* python scripts/build_hook.py: main is entered
HookMain ==
  /\ script = "none"
  /\ script' = "build_hook"
  /\ UNCHANGED <<pvars, gurddy, stdio_server, http_registry, results, report,
                 exit_status, generated, hook>>

\* if not run_command("... scripts/generate_registry.py", "Generating schemas"):
\* sys.exit(1).  The child runs generate_registry.main to its end and exits with 0,
\* or it dies before writing (tool_definitions cannot be imported, tool_registry.py
\* cannot be written)
HookGenerate ==
  /\ script = "build_hook"
  /\ hook.commands = <<>>
  /\ \E died \in BOOLEAN :
       LET ok == run_command(IF died THEN <<1>> ELSE <<0>>)
       IN /\ generated' = IF died THEN generated ELSE GenerateTools(gurddy)
          /\ hook' = [hook EXCEPT !.commands = Append(@, <<"Generating schemas", ok>>)]
          /\ IF ok THEN UNCHANGED <<script, exit_status>>
                   ELSE /\ script' = "build_hook.exited"
                        /\ exit_status' = <<1>>
  /\ UNCHANGED <<pvars, gurddy, stdio_server, http_registry, results, report>>

\* if not run_command("... scripts/verify_consistency.py", "Verifying consistency"):
\* sys.exit(1).  The child runs verify_consistency.main on the registry file as it
\* is now
HookVerify ==
  /\ script = "build_hook"
  /\ Len(hook.commands) = 1
  /\ LET rs == [k \in 1..Len(Checks) |-> CheckResult(k)]
         ok == run_command(VerifyExit(rs))
     IN /\ results' = rs
        /\ report' = IF ValidationRaises(gurddy) THEN report
                       ELSE validate_tool_consistency(gurddy)
        /\ hook' = [hook EXCEPT !.commands = Append(@, <<"Verifying consistency", ok>>)]
        /\ IF ok THEN UNCHANGED <<script, exit_status>>
                 ELSE /\ script' = "build_hook.exited"
                      /\ exit_status' = <<1>>
  /\ UNCHANGED <<pvars, gurddy, stdio_server, http_registry, generated>>

\* print("All pre-build hooks completed successfully!"); main returns
HookComplete ==
  /\ script = "build_hook"
  /\ Len(hook.commands) = 2
  /\ hook' = [hook EXCEPT !.message = "All pre-build hooks completed successfully!"]
  /\ script' = "build_hook.exited"
  /\ exit_status' = <<0>>
  /\ UNCHANGED <<pvars, gurddy, stdio_server, http_registry, results, report, generated>>

NextBuild ==
  \/ HookMain
  \/ HookGenerate
  \/ HookVerify
  \/ HookComplete

SpecBuild == InitScripts /\ [][NextBuild]_vars

----------------------------------------------------------------------------
\* Properties.

\* the exchanges the server has answered and whose terminal Response is still unread
AnsweredExchanges == {x \in InFlight : x.st = "answered" /\ (x.req.signal # "none" => x.frames # <<>>)}

\* the terminal Response of an answered exchange
AnswerOf(x) == IF x.req.signal = "none" THEN x.resp ELSE x.frames[Len(x.frames)]

\* the exchange of the request the server handles in this step, if it handles one
ServedNow(x, y) == x.st = "sent" /\ y.st = "answered"

\* C1: a request other than initialize handled while the session is Uninitialized is
\* answered with a NotInitialized error, invokes no handler and leaves the session
\* as it was.
UninitializedRejectsAll ==
  \A x \in AnsweredExchanges :
    (x.before.state = "Uninitialized" /\ x.req.method # "initialize")
      => /\ AnswerOf(x).kind = "error"
         /\ AnswerOf(x).err = "NotInitialized"
         /\ x.after = x.before
         /\ x.req.id \notin invocations

\* C1 witness: tools/list of a fresh StreamableMCPClient was answered NotInitialized.
WitnessUninitialized ==
  /\ program = "stream"
  /\ rx.st = "answered"
  /\ rx.req.id = 1
  /\ rx.req.method = "tools/list"
  /\ rx.before.state = "Uninitialized"
  /\ rx.resp.err = "NotInitialized"

\* C2: the session leaves Uninitialized only to Initializing (or Closed), in the step
\* that answers an initialize request with its result, and it enters Ready only from
\* Initializing, in the step that handles the initialized message.
TwoPhaseHandshake ==
  [][ /\ (session.state = "Uninitialized" /\ session'.state \notin {"Uninitialized", "Closed"})
          => /\ session'.state = "Initializing"
             /\ \/ ServedNow(hx, hx') /\ hx.req.method = "initialize"
                   /\ AnswerOf(hx').kind = "result"
                \/ ServedNow(rx, rx') /\ rx.req.method = "initialize"
                   /\ AnswerOf(rx').kind = "result"
                \/ \E i \in 1..MaxStreams :
                      /\ ServedNow(streams[i].x, streams'[i].x)
                      /\ streams[i].x.req.method = "initialize"
                      /\ AnswerOf(streams'[i].x).kind = "result"
      /\ (session.state # "Ready" /\ session'.state = "Ready")
          => /\ session.state = "Initializing"
             /\ \/ ServedNow(hx, hx') /\ hx.req.method = "notifications/initialized"
                \/ ServedNow(rx, rx') /\ rx.req.method = "notifications/initialized"
                \/ \E i \in 1..MaxStreams :
                      /\ ServedNow(streams[i].x, streams'[i].x)
                      /\ streams[i].x.req.method = "notifications/initialized"
    ]_vars

\* C2 witness: MCPHTTPClient.initialize has returned and the session is Ready.
WitnessHandshake ==
  /\ program = "http"
  /\ initialized
  /\ hpc = "idle"
  /\ hret.kind = "result"
  /\ session.state = "Ready"

\* C3: an initialize request handled while the session is not Uninitialized is
\* answered with an error and leaves state, protocol version and capabilities of the
\* session unchanged.
SecondInitializeRejected ==
  \A x \in AnsweredExchanges :
    (x.req.method = "initialize" /\ x.before.state # "Uninitialized")
      => /\ AnswerOf(x).kind = "error"
         /\ x.after = x.before

\* C3 witness: the result of a first (streamed) initialize is still unread when a
\* second initialize of the same client is answered with an error.
WitnessSecondInitialize ==
  /\ streams[1].st = "suspended"
  /\ streams[1].x \in AnsweredExchanges
  /\ streams[1].x.req.method = "initialize"
  /\ AnswerOf(streams[1].x).kind = "result"
  /\ rx.st = "answered"
  /\ rx.req.method = "initialize"
  /\ rx.before.state = "Initializing"
  /\ rx.resp.kind = "error"

\* C4: the session state changes only along Uninitialized -> Initializing -> Ready or
\* to Closed; a Closed session never changes again; closing is possible in every
\* other state; and every request handled on a Closed session is rejected.
SessionForwardOnly ==
  /\ [][ /\ (session'.state # session.state)
              => \/ session'.state = "Closed"
                 \/ <<session.state, session'.state>> \in
                      {<<"Uninitialized", "Initializing">>, <<"Initializing", "Ready">>}
         /\ (session.state = "Closed") => (session' = session)
       ]_vars
  /\ [](session.state # "Closed" => ENABLED CloseSession)
  /\ [](\A x \in AnsweredExchanges :
          x.before.state = "Closed"
            => /\ AnswerOf(x).kind = "error"
               /\ AnswerOf(x).err = "SessionClosed"
               /\ x.req.id \notin invocations)

\* C4 witness: a Ready session was closed and a tools/call on it was rejected.
WitnessClosed ==
  /\ program = "http"
  /\ initialized
  /\ session.state = "Closed"
  /\ hx.st = "answered"
  /\ hx.req.method = "tools/call"
  /\ hx.before.state = "Closed"
  /\ hx.resp.err = "SessionClosed"

\* C5: for a tools/call handled on a Ready session, an unregistered name is answered
\* MethodNotFound and arguments that miss a required key, carry an unknown key or a
\* value of the wrong type are answered InvalidParams, in both cases without a
\* handler invocation; a handler is invoked only for a registered name with valid
\* arguments.
HandlerOnlyAfterValidation ==
  \A x \in AnsweredExchanges :
    (x.req.method = "tools/call" /\ x.before.state = "Ready")
      => LET tools == {TOOLS[i] : i \in 1..Len(TOOLS)}
             named == {t \in tools : t.name = x.req.name}
             valid == \E t \in named :
                        /\ \A r \in t.required : \E a \in x.req.args : a[1] = r
                        /\ \A a \in x.req.args : a \in t.properties
         IN /\ (named = {}) => /\ AnswerOf(x).err = "MethodNotFound"
                              /\ AnswerOf(x).kind = "error"
                              /\ x.req.id \notin invocations
            /\ (named # {} /\ ~valid) => /\ AnswerOf(x).err = "InvalidParams"
                                          /\ AnswerOf(x).kind = "error"
                                          /\ x.req.id \notin invocations
            /\ (x.req.id \in invocations) => valid

\* C5 witness: solve_graph_coloring called without num_vertices on a Ready session.
WitnessValidation ==
  /\ hx.st = "answered"
  /\ hx.before.state = "Ready"
  /\ hx.req.name = "solve_graph_coloring"
  /\ hx.req.args = {<<"edges", "array">>}
  /\ hx.resp.err = "InvalidParams"
  /\ hx.req.id \notin invocations

\* C6: every response handed to a caller carries the id of the request that caller
\* sent on that exchange.
ResponseIdEqualsRequestId ==
  delivered.kind # "none" => delivered.resp = delivered.req

\* C6 witness: the transport failed on the second request of a client and the error
\* envelope built by _make_request was returned for it.
WitnessResponseId ==
  /\ program = "http"
  /\ delivered.kind = "error"
  /\ delivered.req = 2
  /\ hret.err = "InternalError"
  /\ hret.code = HttpErrorCode

\* C7: the first request a client sends has id 1 and every later request has an id
\* strictly greater than all ids sent before it.
RequestIdsIncrease ==
  /\ (Len(sent) >= 1) => (sent[1] = 1)
  /\ \A i, j \in 1..Len(sent) : i < j => sent[i] < sent[j]

\* C7 witness: a client has sent initialize, the initialized message and a tools/call.
WitnessRequestIds ==
  /\ program = "http"
  /\ Len(sent) >= 3
  /\ hpc = "call_tool"
  /\ hx.st = "sent"

NotificationsOmitId ==
  (hx.st # "none" /\ hx.req.method = "notifications/initialized") => ~hx.req.hasId

\* C9 (as claimed): a response whose id is the id of no outstanding request is never
\* handed to a caller.
StrayResponseDiscarded ==
  delivered.kind # "none" => delivered.pending

\* the request a client would send next, as a probe of what the session accepts
NextProbe(x) == NewRequest(x.req.id + 1, "tools/list", "", NoArgs, RegularHeader)

\* C11: a tools/call answered with an error (unknown tool, invalid arguments, handler
\* error) leaves the session as it was, and a Ready session still answers the next
\* request with a result; when call_tool returns an error to its caller (an error
\* Response or a transport failure) the client is still initialized, idle, and the
\* session is untouched by that step.
FailedCallKeepsSession ==
  /\ [](\A x \in AnsweredExchanges :
          (x.req.method = "tools/call" /\ AnswerOf(x).kind = "error")
            => /\ x.after = x.before
               /\ (x.before.state = "Ready")
                    => (ServerReply(x.after, NextProbe(x), "return").resp.kind = "result"))
  /\ [][ (hpc = "call_tool" /\ hpc' = "idle" /\ hret'.kind = "error")
           => /\ initialized /\ initialized'
              /\ session' = session
              /\ hx' = NoExchange
       ]_vars

\* C11 witness: the handler of the third request raised, call_tool has returned the
\* error, and client and session are as after the handshake.
WitnessFailedCall ==
  /\ program = "http"
  /\ hpc = "idle"
  /\ hret.kind = "error"
  /\ hret.err = "InternalError"
  /\ hret.id = 3
  /\ 3 \in invocations
  /\ initialized
  /\ session.state = "Ready"

\* the consistency report has been computed by one of the two entry points
ReportComputed ==
  \/ script = "validate_schema_consistency.exited"
  \/ script \in {"verify_consistency", "verify_consistency.exited"} /\ Len(results) >= 2

\* the handler's formal parameters, and those without a default
HandlerParams(tool) == Keys(gurddy[tool.function].params)

HandlerRequired(tool) == gurddy[tool.function].required

\* C12 (as claimed): the report is empty exactly when, for every tool, the handler's
\* required parameters equal inputSchema.required and the keys of
\* inputSchema.properties include every parameter of the handler (stated for handlers
\* that can all be loaded).
ReportEmptyIffConsistent ==
  (ReportComputed /\ \A i \in 1..Len(TOOLS) : gurddy[TOOLS[i].function].exists)
    => ((report = <<>>)
          <=> \A i \in 1..Len(TOOLS) :
                /\ HandlerRequired(TOOLS[i]) = TOOLS[i].required
                /\ HandlerParams(TOOLS[i]) \subseteq Keys(TOOLS[i].properties))

\* C13 (as claimed): every tool whose schema properties and handler parameters differ
\* has an entry in the report that names the missing and the extra parameters.
EveryDifferenceReported ==
  ReportComputed
    => \A i \in 1..Len(TOOLS) :
         LET missing == HandlerParams(TOOLS[i]) \ Keys(TOOLS[i].properties)
             extra == Keys(TOOLS[i].properties) \ HandlerParams(TOOLS[i])
         IN (missing # {} \/ extra # {})
              => \E k \in 1..Len(report) :
                   /\ report[k].tool_name = TOOLS[i].name
                   /\ report[k].missing_in_schema = missing
                   /\ report[k].extra_in_schema = extra

\* C14: validate_schema_consistency exits with 0 exactly when its report is empty and
\* with 1 otherwise; verify_consistency exits with 0 exactly when each of its five
\* checks returned True (a check that returned False or raised makes it exit with 1),
\* so never with 0 when the report of its consistency check is non-empty.
NonEmptyReportFailsExit ==
  /\ (script = "validate_schema_consistency.exited")
       => /\ exit_status \in {<<0>>, <<1>>}
          /\ (exit_status = <<0>>) <=> (report = <<>>)
  /\ (script = "verify_consistency.exited")
       => /\ exit_status \in {<<0>>, <<1>>}
          /\ (report # <<>>) => (exit_status = <<1>>)
          /\ (exit_status = <<0>>) <=> (\A k \in 1..Len(Checks) : RunCheck(k) = "True")

\* C14 witness: MCPStdioServer() raised inside verify_stdio_server, every other check
\* passed, and verify_consistency has exited with 1.
WitnessExitStatus ==
  /\ script = "verify_consistency.exited"
  /\ ~stdio_server.up
  /\ \A k \in {1, 2, 3, 5} : results[k][2]
  /\ ~results[4][2]
  /\ exit_status = <<1>>

\* C15 (as claimed): when the function of some tool does not exist, generation and
\* verification exit with a non-zero status.
UnresolvedHandlerFails ==
  ( /\ script \in {"generate_registry.exited", "verify_consistency.exited"}
    /\ \E i \in 1..Len(TOOLS) : ~gurddy[TOOLS[i].function].exists )
    => exit_status # <<0>>

\* C16: a front-end check that returned True implies that the front-end exposes
\* exactly the names of the registry.
FrontEndsMatchRegistry ==
  \A k \in 1..Len(results) :
    /\ (results[k] = <<"Stdio Server", TRUE>>) => (stdio_server.tools = RegistryNames)
    /\ (results[k] = <<"HTTP Server", TRUE>>) => (http_registry.tools = RegistryNames)

\* C16 witness: both front-end checks have returned True.
WitnessFrontEnds ==
  /\ Len(results) = Len(Checks)
  /\ results[4] = <<"Stdio Server", TRUE>>
  /\ results[5] = <<"HTTP Server", TRUE>>

\* C17: for the name of every tools/call dispatched on a Ready session, the lookup
\* returns the registry entry of exactly that name when there is one, and None
\* otherwise (the call is then answered MethodNotFound); a name that differs from a
\* registered one in letter case or by a blank is not registered.
LookupExact ==
  \A x \in AnsweredExchanges :
    (x.req.method = "tools/call" /\ x.before.state = "Ready")
      => LET hits == {i \in 1..Len(TOOLS) : TOOLS[i].name = x.req.name}
         IN /\ \A i \in hits : /\ get_tool_by_name(x.req.name) = <<TOOLS[i]>>
                               /\ AnswerOf(x).err # "MethodNotFound"
            /\ (hits = {}) => /\ get_tool_by_name(x.req.name) = <<>>
                              /\ AnswerOf(x).err = "MethodNotFound"
                              /\ x.req.id \notin invocations

\* C17 witness: tools/call for " info" (a registered name preceded by a blank) was
\* answered MethodNotFound on a Ready session.
WitnessLookup ==
  /\ hx.st = "answered"
  /\ hx.before.state = "Ready"
  /\ hx.req.method = "tools/call"
  /\ hx.req.name = " info"
  /\ hx.resp.err = "MethodNotFound"

\* C18: every tools/list answered with a result lists the names of the registry in
\* declaration order, whatever was requested before it, and all the lists that
\* successive list_tools calls of one client returned are the same ordered list.
ListStable ==
  /\ \A x \in AnsweredExchanges :
       (x.req.method = "tools/list" /\ AnswerOf(x).kind = "result")
         => /\ Len(AnswerOf(x).payload.tools) = Len(TOOLS)
            /\ \A i \in 1..Len(TOOLS) : AnswerOf(x).payload.tools[i] = TOOLS[i].name
  /\ \A k \in 1..Len(listed) :
       /\ listed[k] = listed[1]
       /\ listed[k] = [i \in 1..Len(TOOLS) |-> TOOLS[i].name]

\* C18 witness: list_tools has returned the tool list twice in succession.
WitnessList ==
  /\ program = "http"
  /\ hpc = "idle"
  /\ Len(listed) = 2
  /\ hret.id = 4
  /\ hret.payload.tools = listed[1]

\* what the server would answer in buffered mode to the payload of exchange x on the
\* session x was handled on
BufferedAnswer(x) ==
  ServerReply(x.before, [x.req EXCEPT !.signal = RegularHeader], "return").resp

\* a Response without its id
Result(resp) == [resp EXCEPT !.id = 0]

ModeBySignalOnly ==
  /\ (hx.st # "none") => (hx.req.signal = "none")
  /\ (rx.st # "none") => (rx.req.signal = "none")
  /\ \A i \in 1..MaxStreams :
       (streams[i].x.st # "none")
         => /\ streams[i].x.req.signal \in {"accept", "x-stream"}
            /\ [streams[i].x.req EXCEPT !.signal = "none"] =
                 NewRequest(streams[i].x.req.id, streams[i].method, streams[i].name,
                            streams[i].args, "none")
  /\ \A x \in InFlight :
       (x.st = "answered")
         => /\ (x.req.signal = "none") => (x.resp.kind # "none" /\ x.frames = <<>>)
            /\ (x.resp.kind = "none") => (x.req.signal # "none")

\* C20 witness: a request sent with X-Stream: true is answered as frames while a
\* request of call_regular is answered with one buffered Response.
WitnessSignal ==
  /\ streams[1].x.st = "answered"
  /\ streams[1].x.req.signal = "x-stream"
  /\ streams[1].x.frames # <<>>
  /\ rx.st = "answered"
  /\ rx.resp.kind # "none"
  /\ rx.frames = <<>>

CallResultSingleText ==
  \A x \in AnsweredExchanges :
    (x.req.method = "tools/call")
      => LET resp == AnswerOf(x)
         IN /\ (resp.kind = "result")
                 => /\ Len(resp.payload.content) = 1
                    /\ resp.payload.content[1].type = "text"
                    /\ resp.payload.content[1].text = Serialize(HandlerReturn(x.req.name))
                    /\ x.req.id \in invocations
                    /\ resp.err = ""
                    /\ resp.code = 0
            /\ (resp.kind = "error")
                 => /\ resp.payload = NoPayload
                    /\ resp.err # ""
                    /\ resp.code < 0

\* C22 witness: solve_n_queens called with n on a Ready session and answered with
\* its serialized return value.
WitnessCallResult ==
  /\ hx.st = "answered"
  /\ hx.req.method = "tools/call"
  /\ hx.req.name = "solve_n_queens"
  /\ hx.resp.kind = "result"
  /\ hx.resp.payload.content = <<[type |-> "text", text |-> "json:{success:solve_n_queens}"]>>

\* C23: in a registry that generate_registry has written and verify_schemas accepts,
\* every tool has inputSchema.type = "object" and every name of inputSchema.required
\* is a key of inputSchema.properties.
GeneratedSchemasWellFormed ==
  (generated # <<>> /\ verify_schemas = "True")
    => \A i \in 1..Len(generated) :
         /\ generated[i].type = "object"
         /\ generated[i].required \subseteq Keys(generated[i].properties)

\* C23 witness: the hook has generated the registry from handlers that take required
\* parameters, and the Schemas check of the verification has accepted it.
WitnessGeneratedSchemas ==
  /\ generated # <<>>
  /\ Len(results) = Len(Checks)
  /\ results[1] = <<"Schemas", TRUE>>
  /\ generated[3].required = {"edges", "num_vertices"}
  /\ generated[2].required = {"n"}

TransportFailureSurfaced ==
  [][ LET failure == [id |-> hx.req.id, kind |-> "error", err |-> "InternalError",
                      code |-> HttpErrorCode, payload |-> NoPayload]
          returns == /\ hpc # "idle"
                     /\ hx.st \in {"sent", "answered"}
                     /\ hx' # hx
                     /\ ~(hx.st = "sent" /\ hx'.st = "answered")
      IN returns
           => /\ delivered'.req = hx.req.id
              /\ delivered'.resp = hx.req.id
              /\ (hx.st = "sent")
                   => /\ delivered'.kind = "error"
                      /\ hpc' = "idle"
                      /\ (hpc # "notify") => (hret' = failure)
              /\ (hx.st = "answered" /\ hpc \in {"list_tools", "call_tool"})
                   => (hret' \in {hx.resp, failure})
              /\ (hx.st = "answered" /\ hpc = "initialize" /\ hpc' = "idle")
                   => (hret' \in {hx.resp, failure}) ]_vars

\* C25 witness: the first request, initialize, never reached the server, and
\* initialize() has returned the -32603 error response with id 1.
WitnessTransportFailure ==
  /\ hpc = "idle"
  /\ request_id = 1
  /\ session = NewSession
  /\ hret = [id |-> 1, kind |-> "error", err |-> "InternalError",
             code |-> HttpErrorCode, payload |-> NoPayload]
  /\ delivered.kind = "error"
  /\ delivered.req = 1

\* C27: while initialized is False (no initialize has returned a response containing
\* result), list_tools and call_tool post nothing: no request of theirs is ever on
\* the wire, and a call returns the "Client not initialized" error value and leaves
\* request_id, initialized, server_info, capabilities and the wire as they were.
UninitializedClientSendsNothing ==
  /\ [](~initialized => (hpc \notin {"list_tools", "call_tool"}))
  /\ [][ (~initialized /\ hpc = "idle" /\ hret' # hret)
           => /\ hret' = ClientNotInitialized
              /\ hpc' = "idle"
              /\ UNCHANGED <<request_id, initialized, server_info, capabilities, sent, hx,
                             session, delivered>> ]_vars
  /\ [][ (~initialized /\ hpc = "idle" /\ hpc' # "idle") => (hpc' = "initialize") ]_vars

\* C27 witness: after a failed initialize (the one request sent so far) a call of
\* list_tools or call_tool has returned the error value.
WitnessNotInitialized ==
  /\ ~initialized
  /\ hpc = "idle"
  /\ hret = ClientNotInitialized
  /\ request_id = 1
  /\ sent = <<1>>
  /\ delivered.kind = "error"

\* C28: initialize posts the initialized notification only in the step in which its
\* initialize request returned a response containing result; when that request
\* returned an error response it posts nothing and initialized, server_info and
\* capabilities keep their values; and initialized, once True, stays True through
\* every later operation, a later failed initialize included.
NotificationOnlyAfterResult ==
  /\ [][ (hx'.req.method = "notifications/initialized" /\ hx'.req # hx.req)
           => /\ hpc = "initialize"
              /\ hx.st = "answered"
              /\ hx.resp.kind = "result"
              /\ delivered' = [req |-> hx.req.id, resp |-> hx.req.id, kind |-> "result",
                               pending |-> TRUE]
              /\ initialized'
              /\ server_info' = hx.resp.payload.serverInfo
              /\ capabilities' = hx.resp.payload.capabilities ]_vars
  /\ [][ (hpc = "initialize" /\ hpc' = "idle")
           => /\ hret'.kind = "error"
              /\ delivered'.kind = "error"
              /\ UNCHANGED <<initialized, server_info, capabilities, sent, request_id>> ]_vars
  /\ [][ initialized => initialized' ]_vars

\* C28 witness: a second initialize, made after the handshake, was answered with an
\* error; nothing was posted after it and the client is still initialized.
WitnessFailedInitialize ==
  /\ hpc = "idle"
  /\ initialized
  /\ server_info = "gurddy-mcp"
  /\ sent = <<1, 2, 3>>
  /\ delivered = [req |-> 3, resp |-> 3, kind |-> "error", pending |-> TRUE]
  /\ hret.kind = "error"
  /\ hret.id = 3
  /\ 3 \notin invocations
  /\ session.state # "Closed"
  /\ hret.err # "InternalError"

\* C29: call_streaming takes its id and posts its request when the generator is first
\* advanced: a generator that was created and not advanced has posted nothing and
\* taken no id, the counter equals the number of requests posted, and the k-th
\* request posted, by call_regular or by a generator, carries the id k.
LazyIdAllocation ==
  /\ request_id = Len(sent)
  /\ sent = [k \in 1..request_id |-> k]
  /\ \A i \in 1..MaxStreams :
       /\ (streams[i].st = "created") => (streams[i].x = NoExchange)
       /\ (streams[i].x.st # "none")
            => /\ streams[i].st \notin {"none", "created"}
               /\ streams[i].x.req.id \in 1..request_id
  /\ (rx.st # "none") => (rx.req.id \in 1..request_id)
  /\ \A x, y \in InFlight : (x # y) => (x.req.id # y.req.id)

\* C29 witness: call_regular posted the first request and returned, and the
\* generator, advanced after that, posted the second one.
WitnessLazyId ==
  /\ program = "stream"
  /\ sent = <<1, 2>>
  /\ delivered.req = 1
  /\ streams[1].st = "running"
  /\ streams[1].x.st = "sent"
  /\ streams[1].x.req.id = 2

\* C26: the hook runs generation first and verification second; verification is
\* started only after generation succeeded; as soon as a step fails the hook exits
\* with status 1 and runs nothing more; the success message is printed only after
\* both steps succeeded in that order, and then the hook exits with 0.
HookStepsInOrder ==
  LET c == hook.commands
  IN /\ Len(c) <= 2
     /\ (Len(c) >= 1) => (c[1][1] = "Generating schemas")
     /\ (Len(c) = 2) => (c[2][1] = "Verifying consistency" /\ c[1][2])
     /\ (Len(c) >= 1 /\ ~c[1][2]) => (generated = <<>> /\ results = <<>>)
     /\ (Len(c) >= 1 /\ c[1][2]) => (generated = GenerateTools(gurddy))
     /\ (Len(c) = 2) => (c[2][2] <=> \A k \in 1..Len(Checks) : RunCheck(k) = "True")
     /\ (\E k \in 1..Len(c) : ~c[k][2])
          => /\ script = "build_hook.exited"
             /\ exit_status = <<1>>
             /\ hook.message = ""
     /\ (hook.message # "")
          => /\ Len(c) = 2
             /\ c[1][2]
             /\ c[2][2]
             /\ exit_status = <<0>>
     /\ (exit_status = <<1>>) => (\E k \in 1..Len(c) : ~c[k][2])
     /\ (exit_status = <<0>>) => (hook.message # "")

\* C26 witness: generation succeeded, verification failed on a handler that no
\* longer exists, and the hook has exited with 1 without the success message.
WitnessHookFails ==
  /\ script = "build_hook.exited"
  /\ hook.commands = <<<<"Generating schemas", TRUE>>, <<"Verifying consistency", FALSE>>>>
  /\ hook.message = ""
  /\ exit_status = <<1>>
  /\ ~gurddy["info"].exists
  /\ generated # <<>>

\* C30 (as claimed): validation of a registry that generate_registry has just written
\* from the handlers returns an empty report, whatever the handlers' signatures are.
GeneratedRegistryConsistent ==
  (Len(hook.commands) = 2 /\ generated = GenerateTools(gurddy))
    => /\ report = <<>>
       /\ validate_tool_consistency(gurddy) = <<>>

====
